---- MODULE Spec2Model ----
(***************************************************************************)
(* py::scoped_ref<T> (include/libpy/scoped_ref.h): an RAII wrapper around  *)
(* a CPython object pointer.  The model keeps the heap of reference        *)
(* counted objects, the handles (scoped_ref instances) and the credits     *)
(* held by code outside any handle.  Every member function is one action;  *)
(* the retain/release calls an action issues are logged in last.calls in   *)
(* the order the code issues them, with the count each call left behind.   *)
(* A retain or release through a dangling pointer is undefined behaviour:  *)
(* the count it leaves is any value, ub records it, and the execution is   *)
(* not followed past that step.                                            *)
(***************************************************************************)
EXTENDS Integers, Sequences, FiniteSets, TLC

\* ---- bounds ----
NumHandles == 2
NumObjs == 2
MaxCount == 2

NULL == 0
Handles == 1..NumHandles
Objs == 1..NumObjs
Ptrs == {NULL} \cup Objs
\* values a read of ob_refcnt in deallocated memory may produce
Garbage == 0..MaxCount

VARIABLES
    m_ref,      \* m_ref[h]: the pointer held by scoped_ref h
    live,       \* live[h]: h has been constructed and not yet destroyed
    ob_refcnt,  \* ob_refcnt[o]: the reference count field of object o
    obState,    \* obState[o]: "unalloc", "live" or "freed" (deallocated)
    ext,        \* ext[o]: credits on o held by code outside any handle
    ub,         \* a retain or release has touched deallocated memory
    last        \* the last operation, its calls, result and pre-state

vars == <<m_ref, live, ob_refcnt, obState, ext, ub, last>>

\* ---- the object model: Py_XINCREF / Py_XDECREF ----
Heap == [cnt |-> ob_refcnt, st |-> obState, calls |-> <<>>, ub |-> FALSE]

Call(k, p, before, after, dangling) ==
    [k |-> k, p |-> p, before |-> before, after |-> after,
     dangling |-> dangling]

\* Py_XINCREF(p): no-op on NULL; on a deallocated object the write lands in
\* freed memory and the count read back is any value g.
Py_XINCREF(S, p, g) ==
    IF p = NULL THEN S
    ELSE IF S.st[p] # "live"
    THEN [S EXCEPT !.cnt[p] = g, !.ub = TRUE,
                   !.calls = Append(@, Call("retain", p, S.cnt[p], g, TRUE))]
    ELSE [S EXCEPT !.cnt[p] = @ + 1,
                   !.calls = Append(@, Call("retain", p, S.cnt[p], S.cnt[p] + 1, FALSE))]

\* Py_XDECREF(p): no-op on NULL; deallocates the object when the count
\* reaches zero; on an already deallocated object the result is any value g.
Py_XDECREF(S, p, g) ==
    IF p = NULL THEN S
    ELSE IF S.st[p] # "live"
    THEN [S EXCEPT !.cnt[p] = g, !.ub = TRUE,
                   !.calls = Append(@, Call("release", p, S.cnt[p], g, TRUE))]
    ELSE [S EXCEPT !.cnt[p] = @ - 1,
                   !.st[p] = IF S.cnt[p] - 1 = 0 THEN "freed" ELSE "live",
                   !.calls = Append(@, Call("release", p, S.cnt[p], S.cnt[p] - 1, FALSE))]

Bounded(S) == \A o \in Objs : S.cnt[o] <= MaxCount

\* the outcomes of a count access through p: one when p is null or points at
\* a live object, any value when p dangles
Outcomes(S, p) ==
    IF p # NULL /\ S.st[p] # "live" THEN Garbage ELSE {0}

\* what an operation starts from: every handle's pointer and every count
Snapshot == [m_ref |-> m_ref, cnt |-> ob_refcnt]

Op(name, h, src, calls, ret, retb) ==
    [op |-> name, h |-> h, src |-> src, calls |-> calls,
     ret |-> ret, retb |-> retb, pre |-> Snapshot]

Init ==
    /\ m_ref = [h \in Handles |-> NULL]
    /\ live = [h \in Handles |-> FALSE]
    /\ ob_refcnt = [o \in Objs |-> 0]
    /\ obState = [o \in Objs |-> "unalloc"]
    /\ ext = [o \in Objs |-> 0]
    /\ ub = FALSE
    /\ last = [op |-> "init", h |-> NULL, src |-> NULL, calls |-> <<>>,
               ret |-> NULL, retb |-> FALSE,
               pre |-> [m_ref |-> [h \in Handles |-> NULL],
                        cnt |-> [o \in Objs |-> 0]]]

\* ---- the environment: code outside the handles ----
\* The runtime creates object o; its creator holds the one credit.  Objects
\* are interchangeable, so they are created in the order of their names.
NewObject(o) ==
    /\ ~ub
    /\ obState[o] = "unalloc"
    /\ \A q \in Objs : q < o => obState[q] # "unalloc"
    /\ ob_refcnt' = [ob_refcnt EXCEPT ![o] = 1]
    /\ obState' = [obState EXCEPT ![o] = "live"]
    /\ ext' = [ext EXCEPT ![o] = 1]
    /\ last' = Op("new_object", NULL, NULL, <<>>, o, FALSE)
    /\ UNCHANGED <<m_ref, live, ub>>

\* Outside code retains a live object it can reach: a credit of its own.
ExtRetain(o) ==
    /\ ~ub
    /\ obState[o] = "live"
    /\ ob_refcnt[o] < MaxCount
    /\ LET S == Py_XINCREF(Heap, o, 0)
       IN /\ ob_refcnt' = S.cnt
          /\ obState' = S.st
          /\ ub' = S.ub
          /\ last' = Op("ext_retain", NULL, NULL, S.calls, o, FALSE)
    /\ ext' = [ext EXCEPT ![o] = @ + 1]
    /\ UNCHANGED <<m_ref, live, ub>>

\* Outside code releases one of the credits it holds.
ExtRelease(o) ==
    /\ ~ub
    /\ ext[o] > 0
    /\ LET S == Py_XDECREF(Heap, o, 0)
       IN /\ ob_refcnt' = S.cnt
          /\ obState' = S.st
          /\ ub' = S.ub
          /\ last' = Op("ext_release", NULL, NULL, S.calls, o, FALSE)
    /\ ext' = [ext EXCEPT ![o] = @ - 1]
    /\ UNCHANGED <<m_ref, live, ub>>

\* DefaultConstruct with the slip of leaving m_ref uninitialised.
DefaultConstruct_uninitialised(h) ==
    /\ ~ub
    /\ ~live[h]
    /\ \E p \in Ptrs : m_ref' = [m_ref EXCEPT ![h] = p]
    /\ live' = [live EXCEPT ![h] = TRUE]
    /\ last' = Op("default_ctor", h, NULL, <<>>, NULL, FALSE)
    /\ UNCHANGED <<ob_refcnt, obState, ext, ub>>

\* ---- constructors ----
\* scoped_ref() : m_ref(nullptr)
DefaultConstruct(h) ==
    /\ ~ub
    /\ ~live[h]
    /\ m_ref' = [m_ref EXCEPT ![h] = NULL]
    /\ live' = [live EXCEPT ![h] = TRUE]
    /\ last' = Op("default_ctor", h, NULL, <<>>, NULL, FALSE)
    /\ UNCHANGED <<ob_refcnt, obState, ext, ub>>

\* scoped_ref(std::nullptr_t) : m_ref(nullptr)
NullptrConstruct(h) ==
    /\ ~ub
    /\ ~live[h]
    /\ m_ref' = [m_ref EXCEPT ![h] = NULL]
    /\ live' = [live EXCEPT ![h] = TRUE]
    /\ last' = Op("nullptr_ctor", h, NULL, <<>>, NULL, FALSE)
    /\ UNCHANGED <<ob_refcnt, obState, ext, ub>>

\* Adopt with the slip of retaining the adopted pointer.
Adopt_retains(h, p) ==
    /\ ~ub
    /\ ~live[h]
    /\ p # NULL => ext[p] > 0
    /\ LET S1 == Py_XINCREF(Heap, p, 0)
       IN /\ Bounded(S1)
          /\ ob_refcnt' = S1.cnt
          /\ obState' = S1.st
          /\ last' = Op("adopt", h, NULL, S1.calls, p, FALSE)
    /\ m_ref' = [m_ref EXCEPT ![h] = p]
    /\ live' = [live EXCEPT ![h] = TRUE]
    /\ ext' = [o \in Objs |-> IF o = p THEN ext[o] - 1 ELSE ext[o]]
    /\ UNCHANGED ub

\* explicit scoped_ref(T* ref) : m_ref(ref); the caller hands over a credit
\* it holds (the documented precondition), or passes a null pointer.
Adopt(h, p) ==
    /\ ~ub
    /\ ~live[h]
    /\ p # NULL => ext[p] > 0
    /\ m_ref' = [m_ref EXCEPT ![h] = p]
    /\ live' = [live EXCEPT ![h] = TRUE]
    /\ ext' = [o \in Objs |-> IF o = p THEN ext[o] - 1 ELSE ext[o]]
    /\ last' = Op("adopt", h, NULL, <<>>, p, FALSE)
    /\ UNCHANGED <<ob_refcnt, obState, ub>>

\* CopyConstruct with the slip of leaving out Py_XINCREF.
CopyConstruct_noRetain(h, cpfrom) ==
    /\ ~ub
    /\ ~live[h] /\ live[cpfrom]
    /\ m_ref' = [m_ref EXCEPT ![h] = m_ref[cpfrom]]
    /\ last' = Op("copy_ctor", h, cpfrom, <<>>, NULL, FALSE)
    /\ live' = [live EXCEPT ![h] = TRUE]
    /\ UNCHANGED <<ob_refcnt, obState, ext, ub>>

\* scoped_ref(const scoped_ref& cpfrom) : m_ref(cpfrom.m_ref) { Py_XINCREF(m_ref); }
CopyConstruct(h, cpfrom) ==
    /\ ~ub
    /\ ~live[h] /\ live[cpfrom]
    /\ \E g \in Outcomes(Heap, m_ref[cpfrom]) :
         LET r1 == [m_ref EXCEPT ![h] = m_ref[cpfrom]]
             S1 == Py_XINCREF(Heap, r1[h], g)
         IN /\ Bounded(S1)
            /\ m_ref' = r1
            /\ ob_refcnt' = S1.cnt
            /\ obState' = S1.st
            /\ ub' = S1.ub
            /\ last' = Op("copy_ctor", h, cpfrom, S1.calls, NULL, FALSE)
    /\ live' = [live EXCEPT ![h] = TRUE]
    /\ UNCHANGED ext

\* MoveConstruct with the slip of leaving the source's pointer in place.
MoveConstruct_keepsSource(h, mvfrom) ==
    /\ ~ub
    /\ ~live[h] /\ live[mvfrom]
    /\ m_ref' = [m_ref EXCEPT ![h] = m_ref[mvfrom]]
    /\ live' = [live EXCEPT ![h] = TRUE]
    /\ last' = Op("move_ctor", h, mvfrom, <<>>, NULL, FALSE)
    /\ UNCHANGED <<ob_refcnt, obState, ext, ub>>

\* scoped_ref(scoped_ref&& mvfrom) : m_ref(mvfrom.m_ref) { mvfrom.m_ref = nullptr; }
MoveConstruct(h, mvfrom) ==
    /\ ~ub
    /\ ~live[h] /\ live[mvfrom]
    /\ LET r1 == [m_ref EXCEPT ![h] = m_ref[mvfrom]]
           r2 == [r1 EXCEPT ![mvfrom] = NULL]
       IN m_ref' = r2
    /\ live' = [live EXCEPT ![h] = TRUE]
    /\ last' = Op("move_ctor", h, mvfrom, <<>>, NULL, FALSE)
    /\ UNCHANGED <<ob_refcnt, obState, ext, ub>>

\* CopyAssign with the slip of leaving out Py_XINCREF.
CopyAssign_noRetain(a, cpfrom) ==
    /\ ~ub
    /\ live[a] /\ live[cpfrom]
    /\ \E g1 \in Outcomes(Heap, m_ref[a]) :
         LET S1 == Py_XDECREF(Heap, m_ref[a], g1)
         IN /\ m_ref' = [m_ref EXCEPT ![a] = m_ref[cpfrom]]
            /\ ob_refcnt' = S1.cnt
            /\ obState' = S1.st
            /\ ub' = S1.ub
            /\ last' = Op("copy_assign", a, cpfrom, S1.calls, NULL, FALSE)
    /\ UNCHANGED <<live, ext>>

\* ---- assignment ----
\* operator=(const scoped_ref& cpfrom):
\*     Py_XDECREF(m_ref); m_ref = cpfrom.m_ref; Py_XINCREF(m_ref);
CopyAssign(a, cpfrom) ==
    /\ ~ub
    /\ live[a] /\ live[cpfrom]
    /\ \E g1 \in Outcomes(Heap, m_ref[a]) :
         LET S1 == Py_XDECREF(Heap, m_ref[a], g1)
             r1 == [m_ref EXCEPT ![a] = m_ref[cpfrom]]
         IN \E g2 \in Outcomes(S1, r1[a]) :
         LET S2 == Py_XINCREF(S1, r1[a], g2)
         IN /\ Bounded(S2)
            /\ m_ref' = r1
            /\ ob_refcnt' = S2.cnt
            /\ obState' = S2.st
            /\ ub' = S2.ub
            /\ last' = Op("copy_assign", a, cpfrom, S2.calls, NULL, FALSE)
    /\ UNCHANGED <<live, ext>>

\* MoveAssign with the slip of retaining the pointer it takes over.
MoveAssign_retains(d, mvfrom) ==
    /\ ~ub
    /\ live[d] /\ live[mvfrom]
    /\ \E g \in Outcomes(Heap, m_ref[d]) :
         LET S1 == Py_XDECREF(Heap, m_ref[d], g)
             r1 == [m_ref EXCEPT ![d] = m_ref[mvfrom]]
             r2 == [r1 EXCEPT ![mvfrom] = NULL]
         IN \E g2 \in Outcomes(S1, r1[d]) :
         LET S2 == Py_XINCREF(S1, r1[d], g2)
         IN /\ Bounded(S2)
            /\ m_ref' = r2
            /\ ob_refcnt' = S2.cnt
            /\ obState' = S2.st
            /\ ub' = S2.ub
            /\ last' = Op("move_assign", d, mvfrom, S2.calls, NULL, FALSE)
    /\ UNCHANGED <<live, ext>>

\* MoveAssign with the slip of leaving the source's pointer in place.
MoveAssign_keepsSource(d, mvfrom) ==
    /\ ~ub
    /\ live[d] /\ live[mvfrom]
    /\ \E g \in Outcomes(Heap, m_ref[d]) :
         LET S1 == Py_XDECREF(Heap, m_ref[d], g)
         IN /\ m_ref' = [m_ref EXCEPT ![d] = m_ref[mvfrom]]
            /\ ob_refcnt' = S1.cnt
            /\ obState' = S1.st
            /\ ub' = S1.ub
            /\ last' = Op("move_assign", d, mvfrom, S1.calls, NULL, FALSE)
    /\ UNCHANGED <<live, ext>>

\* MoveAssign with a guard that skips the assignment of a handle to itself.
MoveAssign_selfGuard(d, mvfrom) ==
    /\ ~ub
    /\ live[d] /\ live[mvfrom]
    /\ \E g \in Outcomes(Heap, m_ref[d]) :
         LET S1 == IF d = mvfrom THEN Heap ELSE Py_XDECREF(Heap, m_ref[d], g)
             r1 == [m_ref EXCEPT ![d] = m_ref[mvfrom]]
             r2 == IF d = mvfrom THEN m_ref ELSE [r1 EXCEPT ![mvfrom] = NULL]
         IN /\ m_ref' = r2
            /\ ob_refcnt' = S1.cnt
            /\ obState' = S1.st
            /\ ub' = S1.ub
            /\ last' = Op("move_assign", d, mvfrom, S1.calls, NULL, FALSE)
    /\ UNCHANGED <<live, ext>>

\* operator=(scoped_ref&& mvfrom):
\*     Py_XDECREF(m_ref); m_ref = mvfrom.m_ref; mvfrom.m_ref = nullptr;
MoveAssign(d, mvfrom) ==
    /\ ~ub
    /\ live[d] /\ live[mvfrom]
    /\ \E g \in Outcomes(Heap, m_ref[d]) :
         LET S1 == Py_XDECREF(Heap, m_ref[d], g)
             r1 == [m_ref EXCEPT ![d] = m_ref[mvfrom]]
             r2 == [r1 EXCEPT ![mvfrom] = NULL]
         IN /\ m_ref' = r2
            /\ ob_refcnt' = S1.cnt
            /\ obState' = S1.st
            /\ ub' = S1.ub
            /\ last' = Op("move_assign", d, mvfrom, S1.calls, NULL, FALSE)
    /\ UNCHANGED <<live, ext>>

\* ---- destruction and escape ----
\* ~scoped_ref() { Py_XDECREF(m_ref); }
Destroy(h) ==
    /\ ~ub
    /\ live[h]
    /\ \E g \in Outcomes(Heap, m_ref[h]) :
         LET S1 == Py_XDECREF(Heap, m_ref[h], g)
         IN /\ ob_refcnt' = S1.cnt
            /\ obState' = S1.st
            /\ ub' = S1.ub
            /\ last' = Op("destroy", h, NULL, S1.calls, NULL, FALSE)
    /\ live' = [live EXCEPT ![h] = FALSE]
    /\ m_ref' = [m_ref EXCEPT ![h] = NULL]
    /\ UNCHANGED ext

\* Escape with the slip of releasing the credit it hands out.
Escape_releases(h) ==
    /\ ~ub
    /\ live[h]
    /\ m_ref[h] # NULL => ext[m_ref[h]] < MaxCount
    /\ \E g \in Outcomes(Heap, m_ref[h]) :
         LET ret == m_ref[h]
             S1 == Py_XDECREF(Heap, ret, g)
         IN /\ m_ref' = [m_ref EXCEPT ![h] = NULL]
            /\ ob_refcnt' = S1.cnt
            /\ obState' = S1.st
            /\ ub' = S1.ub
            /\ ext' = [o \in Objs |-> IF o = ret THEN ext[o] + 1 ELSE ext[o]]
            /\ last' = Op("escape", h, NULL, S1.calls, ret, FALSE)
    /\ UNCHANGED live

\* T* escape() && { T* ret = m_ref; m_ref = nullptr; return ret; }
\* The caller receives the pointer together with the credit the handle held.
Escape(h) ==
    /\ ~ub
    /\ live[h]
    /\ m_ref[h] # NULL => ext[m_ref[h]] < MaxCount
    /\ LET ret == m_ref[h]
       IN /\ m_ref' = [m_ref EXCEPT ![h] = NULL]
          /\ ext' = [o \in Objs |-> IF o = ret THEN ext[o] + 1 ELSE ext[o]]
          /\ last' = Op("escape", h, NULL, <<>>, ret, FALSE)
    /\ UNCHANGED <<live, ob_refcnt, obState, ub>>

\* Get with the slip of clearing the handle as escape does.
Get_escapes(h) ==
    /\ ~ub
    /\ live[h]
    /\ last' = Op("get", h, NULL, <<>>, m_ref[h], FALSE)
    /\ m_ref' = [m_ref EXCEPT ![h] = NULL]
    /\ UNCHANGED <<live, ob_refcnt, obState, ext, ub>>

\* ---- observers ----
\* T* get() { return m_ref; }
Get(h) ==
    /\ ~ub
    /\ live[h]
    /\ last' = Op("get", h, NULL, <<>>, m_ref[h], FALSE)
    /\ UNCHANGED <<m_ref, live, ob_refcnt, obState, ext, ub>>

\* explicit operator bool() const { return m_ref; }
OperatorBool(h) ==
    /\ ~ub
    /\ live[h]
    /\ last' = Op("bool", h, NULL, <<>>, NULL, m_ref[h] # NULL)
    /\ UNCHANGED <<m_ref, live, ob_refcnt, obState, ext, ub>>

\* explicit operator T*() { return m_ref; }
ToPointer(h) ==
    /\ ~ub
    /\ live[h]
    /\ last' = Op("to_pointer", h, NULL, <<>>, m_ref[h], FALSE)
    /\ UNCHANGED <<m_ref, live, ob_refcnt, obState, ext, ub>>

\* explicit operator PyObject*() { return reinterpret_cast<PyObject*>(m_ref); }
\* the cast keeps the address: the result points at the same object
ToPyObject(h) ==
    /\ ~ub
    /\ live[h]
    /\ last' = Op("to_pyobject", h, NULL, <<>>, m_ref[h], FALSE)
    /\ UNCHANGED <<m_ref, live, ob_refcnt, obState, ext, ub>>

\* bool operator==(T* other) const { return m_ref == other; }
\* last.ret records the pointer compared with
OperatorEqPtr(h, other) ==
    /\ ~ub
    /\ live[h]
    /\ last' = Op("eq_ptr", h, NULL, <<>>, other, m_ref[h] = other)
    /\ UNCHANGED <<m_ref, live, ob_refcnt, obState, ext, ub>>

\* bool operator==(const scoped_ref& other) const { return m_ref == other.get(); }
OperatorEq(h, other) ==
    /\ ~ub
    /\ live[h] /\ live[other]
    /\ last' = Op("eq", h, other, <<>>, NULL, m_ref[h] = m_ref[other])
    /\ UNCHANGED <<m_ref, live, ob_refcnt, obState, ext, ub>>

\* bool operator!=(T* other) const { return m_ref != other; }
OperatorNePtr(h, other) ==
    /\ ~ub
    /\ live[h]
    /\ last' = Op("ne_ptr", h, NULL, <<>>, other, m_ref[h] # other)
    /\ UNCHANGED <<m_ref, live, ob_refcnt, obState, ext, ub>>

\* OperatorNe with the slip of testing equality.
OperatorNe_asEq(h, other) ==
    /\ ~ub
    /\ live[h] /\ live[other]
    /\ last' = Op("ne", h, other, <<>>, NULL, m_ref[h] = m_ref[other])
    /\ UNCHANGED <<m_ref, live, ob_refcnt, obState, ext, ub>>

\* bool operator!=(const scoped_ref& other) const { return m_ref != other.get(); }
OperatorNe(h, other) ==
    /\ ~ub
    /\ live[h] /\ live[other]
    /\ last' = Op("ne", h, other, <<>>, NULL, m_ref[h] # m_ref[other])
    /\ UNCHANGED <<m_ref, live, ob_refcnt, obState, ext, ub>>

\* raise_format<scoped_ref<T>>::prepare(ob) { return ob.get(); }
Prepare(h) ==
    /\ ~ub
    /\ live[h]
    /\ last' = Op("prepare", h, NULL, <<>>, m_ref[h], FALSE)
    /\ UNCHANGED <<m_ref, live, ob_refcnt, obState, ext, ub>>

Next ==
    \/ \E o \in Objs : NewObject(o)
    \/ \E o \in Objs : ExtRetain(o)
    \/ \E o \in Objs : ExtRelease(o)
    \/ \E h \in Handles : DefaultConstruct(h)
    \/ \E h \in Handles : NullptrConstruct(h)
    \/ \E h \in Handles, p \in Ptrs : Adopt(h, p)
    \/ \E h, s \in Handles : CopyConstruct(h, s)
    \/ \E h, s \in Handles : MoveConstruct(h, s)
    \/ \E a, b \in Handles : CopyAssign(a, b)
    \/ \E d, s \in Handles : MoveAssign(d, s)
    \/ \E h \in Handles : Destroy(h)
    \/ \E h \in Handles : Escape(h)
    \/ \E h \in Handles : Get(h)
    \/ \E h \in Handles : OperatorBool(h)
    \/ \E h \in Handles : ToPointer(h)
    \/ \E h \in Handles : ToPyObject(h)
    \/ \E h \in Handles, p \in Ptrs : OperatorEqPtr(h, p)
    \/ \E h, other \in Handles : OperatorEq(h, other)
    \/ \E h \in Handles, p \in Ptrs : OperatorNePtr(h, p)
    \/ \E h, other \in Handles : OperatorNe(h, other)
    \/ \E h \in Handles : Prepare(h)

Spec == Init /\ [][Next]_vars

TypeOK ==
    /\ m_ref \in [Handles -> Ptrs]
    /\ live \in [Handles -> BOOLEAN]
    /\ ob_refcnt \in [Objs -> 0..MaxCount]
    /\ obState \in [Objs -> {"unalloc", "live", "freed"}]
    /\ ext \in [Objs -> 0..MaxCount]
    /\ ub \in BOOLEAN

\* ---- vocabulary of the properties ----
\* the retain/release calls of the last operation, as <<kind, object>> pairs
Issued == [i \in 1..Len(last.calls) |-> <<last.calls[i].k, last.calls[i].p>>]

NumCalls(k) ==
    Cardinality({i \in 1..Len(last.calls) : last.calls[i].k = k})

\* live handles whose pointer is o
Owners(o) == Cardinality({h \in Handles : live[h] /\ m_ref[h] = o})

\* the last operation was copy-assignment of a non-null handle to itself
SelfCopyAssigned ==
    /\ last.op = "copy_assign"
    /\ last.h = last.src
    /\ last.pre.m_ref[last.h] # NULL

\* C1: copy self-assignment h = h of a non-null handle leaves h pointing at
\* the same object, the object alive with its count unchanged, and no call
\* of the assignment brings the count to zero or touches a freed object.
SelfCopyAssignNetZero ==
    SelfCopyAssigned =>
        LET p == last.pre.m_ref[last.h]
        IN /\ m_ref[last.h] = p
           /\ obState[p] = "live"
           /\ ob_refcnt[p] = last.pre.cnt[p]
           /\ \A i \in 1..Len(last.calls) :
                  last.calls[i].after > 0 /\ ~last.calls[i].dangling

\* C2: credit conservation: the count of every live object is the number of
\* live handles pointing at it plus the credits held outside handles, and
\* no handle or outside credit refers to an object that is not alive.
CreditConservation ==
    \A o \in Objs :
        /\ obState[o] = "live" => ob_refcnt[o] = Owners(o) + ext[o]
        /\ obState[o] # "live" => Owners(o) + ext[o] = 0

\* C3: exactly-once release: no retain or release is issued on an object
\* whose count has already reached zero, no count is negative, and once
\* every handle is destroyed and every outside credit released each object
\* that was created is freed with count zero.
ExactlyOnceRelease ==
    /\ \A i \in 1..Len(last.calls) : ~last.calls[i].dangling
    /\ \A o \in Objs : ob_refcnt[o] >= 0
    /\ ((\A h \in Handles : ~live[h]) /\ (\A o \in Objs : ext[o] = 0)) =>
           \A o \in Objs :
               obState[o] # "unalloc" =>
                   obState[o] = "freed" /\ ob_refcnt[o] = 0

\* C4: in copy-assignment a = b with both pointers non-null, no release of
\* a's old pointer is issued before the retain of b's pointer (a
\* short-circuit that issues no call at all satisfies this).
CopyAssignRetainsBeforeRelease ==
    (/\ last.op = "copy_assign"
     /\ last.pre.m_ref[last.h] # NULL
     /\ last.pre.m_ref[last.src] # NULL) =>
        \A j \in 1..Len(last.calls) :
            Issued[j] = <<"release", last.pre.m_ref[last.h]>> =>
                \E i \in 1..(j - 1) :
                    Issued[i] = <<"retain", last.pre.m_ref[last.src]>>

\* C5 as stated: every operation issues in total zero or one retain/release
\* call.
AtMostOneCall == Len(last.calls) <= 1

\* C5 amended: every operation issues at most one retain and at most one
\* release; only copy-assignment issues both (the release, then the
\* retain), every other operation issues zero or one call in total.
AtMostOneRetainAndOneRelease ==
    /\ NumCalls("retain") <= 1
    /\ NumCalls("release") <= 1
    /\ last.op # "copy_assign" => Len(last.calls) <= 1
    /\ Len(last.calls) = 2 =>
           last.calls[1].k = "release" /\ last.calls[2].k = "retain"

\* a copy-assignment that issued both its release and its retain, each on a
\* live object
CopyAssignIssuedTwoCalls ==
    last.op = "copy_assign" /\ Len(last.calls) = 2 /\ ~ub

\* the calls an operation issues when it releases old (if non-null) and then
\* retains new (if non-null)
ReleaseOf(old) == IF old = NULL THEN <<>> ELSE << <<"release", old>> >>
RetainOf(new) == IF new = NULL THEN <<>> ELSE << <<"retain", new>> >>

\* every handle other than those in H has the pointer it had before
OthersUnchanged(H) ==
    \A g \in Handles \ H : m_ref[g] = last.pre.m_ref[g]

\* every count is the one before the operation, plus the retains and minus
\* the releases of Issued
CountsFollowCalls ==
    \A o \in Objs :
        ob_refcnt[o] = last.pre.cnt[o]
            + Cardinality({i \in 1..Len(Issued) : Issued[i] = <<"retain", o>>})
            - Cardinality({i \in 1..Len(Issued) : Issued[i] = <<"release", o>>})

\* C6 as stated: move-assignment d = move(s), for every d and s, the same
\* handle included, releases d's previous pointer once (if non-null), issues
\* no retain, leaves s null and d holding s's original pointer.
MoveAssignTransfers ==
    last.op = "move_assign" =>
        LET d == last.h
            s == last.src
        IN /\ Issued = ReleaseOf(last.pre.m_ref[d])
           /\ m_ref[s] = NULL
           /\ m_ref[d] = last.pre.m_ref[s]

\* C6 amended: as above when d and s are distinct handles (holding the same
\* object or not); when d and s are the same handle its credit is released
\* once and it is left null.  The counts change by that one release only
\* and no other handle is touched.
MoveAssignTransfersOrEmpties ==
    last.op = "move_assign" =>
        LET d == last.h
            s == last.src
        IN /\ Issued = ReleaseOf(last.pre.m_ref[d])
           /\ m_ref[s] = NULL
           /\ m_ref[d] = IF d = s THEN NULL ELSE last.pre.m_ref[s]
           /\ CountsFollowCalls
           /\ OthersUnchanged({d, s})
           /\ ~ub

\* a move-assignment between distinct handles that both held a pointer
MoveAssignedBetweenOwners ==
    /\ last.op = "move_assign"
    /\ last.h # last.src
    /\ last.pre.m_ref[last.h] # NULL
    /\ last.pre.m_ref[last.src] # NULL

\* C7: copy-assignment a = b between distinct handles releases a's previous
\* pointer once (not at all if a was empty), retains b's pointer once (not
\* at all if b is empty), leaves a's pointer equal to b's, and leaves b's
\* pointer unchanged and its object alive with b's credit still counted.
CopyAssignDistinct ==
    (last.op = "copy_assign" /\ last.h # last.src) =>
        LET a == last.h
            b == last.src
            old == last.pre.m_ref[a]
            new == last.pre.m_ref[b]
        IN /\ Issued = ReleaseOf(old) \o RetainOf(new)
           /\ m_ref[a] = new
           /\ m_ref[b] = new
           /\ OthersUnchanged({a})
           /\ CountsFollowCalls
           /\ new # NULL => obState[new] = "live" /\ ob_refcnt[new] >= 2
           /\ ~ub

\* a copy-assignment between distinct handles holding different objects
CopyAssignedBetweenOwners ==
    /\ last.op = "copy_assign"
    /\ last.h # last.src
    /\ last.pre.m_ref[last.h] # NULL
    /\ last.pre.m_ref[last.src] # NULL
    /\ last.pre.m_ref[last.h] # last.pre.m_ref[last.src]

\* C8: adopting a non-null pointer p that carries a credit yields a handle
\* with get() = p and issues no retain (no count changes); destroying a
\* handle that holds p issues exactly one release, of p.
AdoptThenDestroy ==
    /\ (last.op = "adopt" /\ last.ret # NULL) =>
           /\ m_ref[last.h] = last.ret
           /\ Issued = <<>>
           /\ ob_refcnt = last.pre.cnt
    /\ last.op = "get" =>
           last.ret = m_ref[last.h] /\ m_ref = last.pre.m_ref
    /\ (last.op = "destroy" /\ last.pre.m_ref[last.h] # NULL) =>
           /\ Issued = << <<"release", last.pre.m_ref[last.h]>> >>
           /\ CountsFollowCalls
           /\ ~ub

\* a handle holding the only credit of its object (an adopted fresh object)
\* has been destroyed, which freed the object
SoleOwnerDestroyed ==
    /\ last.op = "destroy"
    /\ last.pre.m_ref[last.h] # NULL
    /\ last.pre.cnt[last.pre.m_ref[last.h]] = 1
    /\ obState[last.pre.m_ref[last.h]] = "freed"

\* C9: copy-constructing from a non-null handle h issues one retain (count
\* plus one) and gives a second handle with the same pointer; destroying
\* one of the handles holding p issues one release (count minus one), and
\* every other handle keeps its pointer, which still refers to a live
\* object.
CopyConstructThenDestroy ==
    /\ (last.op = "copy_ctor" /\ last.pre.m_ref[last.src] # NULL) =>
           LET p == last.pre.m_ref[last.src]
           IN /\ Issued = << <<"retain", p>> >>
              /\ ob_refcnt[p] = last.pre.cnt[p] + 1
              /\ m_ref[last.h] = p
              /\ m_ref[last.src] = p
              /\ OthersUnchanged({last.h})
              /\ ~ub
    /\ (last.op = "destroy" /\ last.pre.m_ref[last.h] # NULL) =>
           LET p == last.pre.m_ref[last.h]
           IN /\ NumCalls("release") = 1
              /\ ob_refcnt[p] = last.pre.cnt[p] - 1
              /\ OthersUnchanged({last.h})
              /\ \A g \in Handles :
                     (live[g] /\ m_ref[g] = p) =>
                         obState[p] = "live" /\ ob_refcnt[p] >= 1

\* one of two handles holding the same object has been destroyed and the
\* other still holds it
CopyDestroyedOriginalRemains ==
    /\ last.op = "destroy"
    /\ last.pre.m_ref[last.h] # NULL
    /\ \E g \in Handles : live[g] /\ m_ref[g] = last.pre.m_ref[last.h]

\* C10: move-constructing h2 from h leaves h null (boolean false) and h2
\* holding h's original pointer, with no retain or release; destroying a
\* null handle issues no release, destroying a handle that holds a pointer
\* issues exactly one.
MoveConstructThenDestroy ==
    /\ last.op = "move_ctor" =>
           /\ m_ref[last.src] = NULL
           /\ m_ref[last.h] = last.pre.m_ref[last.src]
           /\ Issued = <<>>
           /\ ob_refcnt = last.pre.cnt
           /\ OthersUnchanged({last.h, last.src})
    /\ last.op = "bool" =>
           last.retb = (m_ref[last.h] # NULL) /\ m_ref = last.pre.m_ref
    /\ last.op = "destroy" =>
           Len(last.calls) = IF last.pre.m_ref[last.h] = NULL THEN 0 ELSE 1

\* a handle holding an object has been moved into a new handle
MoveConstructedFromOwner ==
    /\ last.op = "move_ctor"
    /\ last.pre.m_ref[last.src] # NULL
    /\ live[last.src]

\* C11: escape on a handle h returns h's original pointer, leaves h null,
\* issues no retain or release and changes no count; the returned pointer
\* carries the credit h held (the object is alive and its count still
\* covers every owner); destroying a null handle, as h now is, issues no
\* release.
EscapeHandsOverCredit ==
    /\ last.op = "escape" =>
           /\ last.ret = last.pre.m_ref[last.h]
           /\ m_ref[last.h] = NULL
           /\ OthersUnchanged({last.h})
           /\ Issued = <<>>
           /\ ob_refcnt = last.pre.cnt
           /\ last.ret # NULL =>
                  /\ obState[last.ret] = "live"
                  /\ ext[last.ret] >= 1
                  /\ ob_refcnt[last.ret] = Owners(last.ret) + ext[last.ret]
    /\ (last.op = "bool" /\ m_ref[last.h] = NULL) => last.retb = FALSE
    /\ (last.op = "destroy" /\ last.pre.m_ref[last.h] = NULL) =>
           Issued = <<>> /\ ob_refcnt = last.pre.cnt

\* a handle holding an object has escaped it
EscapedFromOwner ==
    /\ last.op = "escape"
    /\ last.ret # NULL
    /\ live[last.h]

\* C12: a default- or nullptr-constructed handle has a null pointer and was
\* made with no retain or release; get() returns the pointer and the
\* boolean test is true iff the pointer is non-null; destroying a handle
\* whose pointer is null issues no release and changes no count or state.
EmptyHandlesInert ==
    /\ last.op \in {"default_ctor", "nullptr_ctor"} =>
           /\ m_ref[last.h] = NULL
           /\ live[last.h]
           /\ Issued = <<>>
           /\ ob_refcnt = last.pre.cnt
           /\ OthersUnchanged({last.h})
    /\ last.op = "get" => last.ret = m_ref[last.h]
    /\ last.op = "bool" => (last.retb <=> m_ref[last.h] # NULL)
    /\ (last.op = "destroy" /\ last.pre.m_ref[last.h] = NULL) =>
           /\ Len(last.calls) = 0
           /\ ob_refcnt = last.pre.cnt
           /\ \A o \in Objs : obState[o] = "freed" => ob_refcnt[o] = 0
           /\ ~ub

\* a null handle has been destroyed while some object is alive
NullHandleDestroyed ==
    /\ last.op = "destroy"
    /\ last.pre.m_ref[last.h] = NULL
    /\ \E o \in Objs : obState[o] = "live"

\* C13: == and != against a handle or a raw pointer compare the pointers
\* only, and != is the negation of ==; two handles holding the same object
\* each hold a credit of their own (the count is at least two), destroying
\* one issues one release and leaves every other handle's pointer and the
\* object in place.
EqualityIsIdentity ==
    /\ last.op = "eq" => (last.retb <=> m_ref[last.h] = m_ref[last.src])
    /\ last.op = "ne" => (last.retb <=> m_ref[last.h] # m_ref[last.src])
    /\ last.op = "eq_ptr" => (last.retb <=> m_ref[last.h] = last.ret)
    /\ last.op = "ne_ptr" => (last.retb <=> m_ref[last.h] # last.ret)
    /\ \A g, h \in Handles :
           (g # h /\ live[g] /\ live[h] /\ m_ref[g] # NULL
                 /\ m_ref[g] = m_ref[h]) =>
               obState[m_ref[g]] = "live" /\ ob_refcnt[m_ref[g]] >= 2
    /\ (last.op = "destroy" /\ last.pre.m_ref[last.h] # NULL) =>
           LET p == last.pre.m_ref[last.h]
           IN /\ Issued = << <<"release", p>> >>
              /\ OthersUnchanged({last.h})
              /\ \A g \in Handles :
                     (live[g] /\ m_ref[g] = p) =>
                         /\ obState[p] = "live"
                         /\ ob_refcnt[p] = last.pre.cnt[p] - 1

\* two distinct handles holding the same object have compared equal
EqualHandlesCompared ==
    /\ last.op = "eq"
    /\ last.h # last.src
    /\ m_ref[last.h] # NULL
    /\ last.retb

\* the operations that only observe a handle
Observers ==
    {"get", "to_pointer", "to_pyobject", "bool", "eq", "eq_ptr", "ne",
     "ne_ptr", "prepare"}

\* C14: get, the two pointer conversions and prepare return the handle's
\* current pointer, the boolean test and the comparisons a value that
\* depends on the pointers alone, and every observer issues no call and
\* leaves every handle's pointer and every object's count unchanged.
ObserversChangeNothing ==
    last.op \in Observers =>
        /\ m_ref = last.pre.m_ref
        /\ ob_refcnt = last.pre.cnt
        /\ Issued = <<>>
        /\ ~ub
        /\ last.op \in {"get", "to_pointer", "to_pyobject", "prepare"} =>
               last.ret = last.pre.m_ref[last.h]
        /\ last.op = "bool" => (last.retb <=> last.pre.m_ref[last.h] # NULL)
        /\ last.op \in {"eq", "ne"} =>
               (last.retb <=>
                   ((last.op = "eq") <=>
                       (last.pre.m_ref[last.h] = last.pre.m_ref[last.src])))
        /\ last.op \in {"eq_ptr", "ne_ptr"} =>
               (last.retb <=>
                   ((last.op = "eq_ptr") <=>
                       (last.pre.m_ref[last.h] = last.ret)))

\* prepare has been applied to a handle that holds an object
PreparedOwner ==
    /\ last.op = "prepare"
    /\ last.pre.m_ref[last.h] # NULL
    /\ last.ret = m_ref[last.h]

\* the last operation was copy-assignment between two distinct handles
\* that held the same object
CopyAssignedBetweenCoOwners ==
    /\ last.op = "copy_assign"
    /\ last.h # last.src
    /\ last.pre.m_ref[last.h] # NULL
    /\ last.pre.m_ref[last.h] = last.pre.m_ref[last.src]

\* C15: copy-assignment a = b between distinct handles that both hold a
\* credit on p starts with count(p) >= 2, never brings count(p) to zero at
\* an intermediate step, and ends with count(p) unchanged, p alive and
\* both a and b pointing at p.
CoOwnerCopyAssignKeepsObject ==
    CopyAssignedBetweenCoOwners =>
        LET p == last.pre.m_ref[last.h]
        IN /\ last.pre.cnt[p] >= 2
           /\ \A i \in 1..Len(last.calls) :
                  last.calls[i].after > 0 /\ ~last.calls[i].dangling
           /\ ob_refcnt[p] = last.pre.cnt[p]
           /\ obState[p] = "live"
           /\ m_ref[last.h] = p
           /\ m_ref[last.src] = p
           /\ ~ub

\* the last operation was move-assignment of a non-null handle to itself
SelfMoveAssigned ==
    /\ last.op = "move_assign"
    /\ last.h = last.src
    /\ last.pre.m_ref[last.h] # NULL

\* C16: self move-assignment h = move(h) of a non-null handle releases h's
\* credit exactly once and leaves h null; the count is one less, credit
\* conservation holds afterwards, and destroying a null handle, as h now
\* is, issues no release.
SelfMoveAssignReleasesOnce ==
    /\ SelfMoveAssigned =>
           LET p == last.pre.m_ref[last.h]
           IN /\ Issued = << <<"release", p>> >>
              /\ ~last.calls[1].dangling
              /\ m_ref[last.h] = NULL
              /\ ob_refcnt[p] = last.pre.cnt[p] - 1
              /\ OthersUnchanged({last.h})
              /\ CreditConservation
              /\ ~ub
    /\ (last.op = "destroy" /\ last.pre.m_ref[last.h] = NULL) =>
           NumCalls("release") = 0
====
